---- MODULE Spec2Model ----
\* Model of trycmd's TestCases registry (src/src/cases.rs): the chained
\* configuration surface, the explicit run() trigger, the drop-time trigger,
\* and the two parsers parse_include and parse_mode.
EXTENDS Integers, Sequences, FiniteSets, TLC

\* ---------------------------------------------------------------- bounds
\* Longest process argument list drawn in InitParse.
MaxArgs == 4
\* Most explicit run() calls made on one instance.
MaxRuns == 2
\* Most configuration calls made on one instance.
MaxCalls == 2

\* ------------------------------------------------------------ Option<T>
\* Option<T> is a sequence of length at most one.
None == << >>
Some(x) == << x >>
IsSome(o) == Len(o) = 1
Unwrap(o) == o[1]

\* --------------------------------------------------------------- inputs
\* Strings that parse_include inspects are sequences of bytes, so that
\* strip_prefix and into_string are computed and not assumed.
PREFIX == << "t", "r", "y", "c", "m", "d", "=" >>
\* A byte that is valid in no UTF-8 string (0xFF).
InvalidByte == "\\xFF"
ArgX == << "x" >>
ArgFoo == PREFIX \o << "f", "o", "o" >>
ArgBar == PREFIX \o << "b", "a", "r" >>
ArgBare == PREFIX
ArgInner == << "x" >> \o PREFIX \o << "f", "o", "o" >>
ArgRaw == PREFIX \o << "f", InvalidByte >>
ArgPool == { ArgX, ArgFoo, ArgBar, ArgBare, ArgInner, ArgRaw }

RECURSIVE SeqsUpTo(_, _)
SeqsUpTo(S, n) ==
    IF n = 0 THEN { << >> }
    ELSE LET shorter == SeqsUpTo(S, n - 1)
         IN  shorter \cup { Append(s, x) : s \in { t \in shorter : Len(t) = n - 1 }, x \in S }

\* Argument lists of the process: every list over ArgPool up to MaxArgs.
ArgLists == SeqsUpTo(ArgPool, MaxArgs)
\* The argument list used when the whole life cycle is explored: the life
\* cycle only carries the filter parsed from it, and SpecParse explores the
\* other lists.
LifeArgLists == { << ArgX, ArgFoo >> }

\* Values of the TRYCMD environment variable (None: unset).
VarPool == { None, Some("overwrite"), Some("dump"), Some(""), Some("Overwrite"),
             Some("DUMP"), Some("overwrites"), Some("xdump"), Some("bogus") }

\* Values of TRYCMD used when the whole life cycle is explored: one that
\* needs no preparation and one whose preparation can fail.
LifeVars == { None, Some("dump") }

Globs == { "a.toml", "b.toml" }
Paths == { "target/app" }
Names == { "app" }
Durations == { 1, 2 }
EnvKeys == { "K", "L" }
EnvVals == { "1", "2" }
\* What the runner collaborator reports for a run.
Reports == { "pass", "fail" }

VARIABLES
    args,       \* std::env::args_os(): the process arguments
    trycmd,     \* std::env::var_os("TRYCMD")
    life,       \* "start" (before new()), "live", "dropped"
    runner,     \* TestCases.runner: the RunnerSpec being accumulated
    has_run,    \* TestCases.has_run
    panicking,  \* std::thread::panicking()
    mode,       \* the mode the last trigger resolved (None: never resolved)
    triggers,   \* times the body of run() was entered (by run() or by drop)
    runCalls,   \* explicit run() calls
    calls,      \* configuration calls
    runs,       \* times the runner's prepare().run(&mode) was invoked
    handed,     \* what the last prepare().run(&mode) received
    report,     \* what the runner reported for the last run
    initResult  \* whether the last mode.initialize() returned Ok (None: never called)

vars == << args, trycmd, life, runner, has_run, panicking, mode, triggers,
           runCalls, calls, runs, handed, report, initResult >>

\* ----------------------------------------------------------- parse_mode
ModeFail == << "Fail" >>
ModeOverwrite == << "Overwrite" >>
ModeDump(dest) == << "Dump", dest >>

\* parse_mode comparing without regard to case.
parse_mode_ignore_case(var) ==
    IF var \in { Some("overwrite"), Some("Overwrite") } THEN ModeOverwrite
    ELSE IF var \in { Some("dump"), Some("DUMP") } THEN ModeDump("dump")
    ELSE ModeFail

parse_mode(var) ==
    IF var = Some("overwrite") THEN ModeOverwrite
    ELSE IF var = Some("dump") THEN ModeDump("dump")
    ELSE ModeFail

\* -------------------------------------------------------- parse_include
\* OsString::into_string: Ok only for valid Unicode.
into_string(arg) ==
    IF \E i \in 1..Len(arg) : arg[i] = InvalidByte THEN None ELSE Some(arg)

\* str::strip_prefix
strip_prefix(s, p) ==
    IF Len(s) >= Len(p) /\ SubSeq(s, 1, Len(p)) = p
    THEN Some(SubSeq(s, Len(p) + 1, Len(s)))
    ELSE None

\* The closure without the test for an empty remainder.
filter_arg_keep_empty(arg) == strip_prefix(arg, PREFIX)

\* The closure given to filter_map.
filter_arg(arg) ==
    LET remainder == strip_prefix(arg, PREFIX)
    IN  IF IsSome(remainder)
        THEN IF Unwrap(remainder) = << >> THEN None ELSE Some(Unwrap(remainder))
        ELSE None

\* flat_map(f) and filter_map(f) over a sequence: the Some results, in order.
RECURSIVE flat_map(_, _)
flat_map(s, i) ==
    IF i > Len(s) THEN << >> ELSE into_string(s[i]) \o flat_map(s, i + 1)

RECURSIVE filter_map(_, _)
filter_map(s, i) ==
    IF i > Len(s) THEN << >> ELSE filter_arg(s[i]) \o filter_map(s, i + 1)

\* parse_include without the test for an empty result.
parse_include_always_some(as) == Some(filter_map(flat_map(as, 1), 1))

parse_include(as) ==
    LET filters == filter_map(flat_map(as, 1), 1)
    IN  IF filters = << >> THEN None ELSE Some(filters)

\* ----------------------------------------------------------- RunnerSpec
\* The runner-spec collaborator (crate::RunnerSpec), as the specification
\* describes it.
RunnerDefault ==
    [ cases |-> << >>, include |-> None, default_bin |-> None,
      timeout |-> None, env |-> << >> ]

RunnerInclude(r, inc) == [ r EXCEPT !.include = inc ]

RunnerCase(r, glob, expected) ==
    [ r EXCEPT !.cases = Append(@, [ glob |-> glob, expected |-> expected ]) ]

RunnerDefaultBin(r, bin) == [ r EXCEPT !.default_bin = bin ]

RunnerTimeout(r, time) == [ r EXCEPT !.timeout = time ]

\* Insert or overwrite by key, keeping the order of first insertion.
RunnerEnv(r, key, value) ==
    LET e == r.env
        at == { i \in 1..Len(e) : e[i].key = key }
    IN  IF at = { }
        THEN [ r EXCEPT !.env = Append(e, [ key |-> key, value |-> value ]) ]
        ELSE [ r EXCEPT !.env = [ i \in 1..Len(e) |->
                                    IF i \in at THEN [ key |-> key, value |-> value ]
                                    ELSE e[i] ] ]

\* The case entries after finalization: one per pattern, the last
\* registration of a pattern deciding its expected outcome.
RECURSIVE FinalCases(_, _, _)
FinalCases(regs, i, acc) ==
    IF i > Len(regs) THEN acc
    ELSE LET at == { j \in 1..Len(acc) : acc[j].glob = regs[i].glob }
         IN  FinalCases(regs, i + 1,
                        IF at = { } THEN Append(acc, regs[i])
                        ELSE [ j \in 1..Len(acc) |-> IF j \in at THEN regs[i] ELSE acc[j] ])

\* RunnerSpec::prepare: the finalized configuration handed to Runner::run.
RunnerPrepare(r) ==
    [ cases |-> FinalCases(r.cases, 1, << >>), include |-> r.include,
      default_bin |-> r.default_bin, timeout |-> r.timeout, env |-> r.env ]

\* Mode::initialize, as the specification describes it: only the dump mode
\* prepares a destination, and preparing it can fail.
initialize(m, fsOk) == IF m[1] = "Dump" THEN fsOk ELSE TRUE

\* ------------------------------------------------------------ TestCases
\* The process before TestCases::new() is called.
Start ==
    /\ life = "start"
    /\ runner = RunnerDefault
    /\ has_run = FALSE
    /\ panicking = FALSE
    /\ mode = None
    /\ triggers = 0
    /\ runCalls = 0
    /\ calls = 0
    /\ runs = 0
    /\ handed = None
    /\ report = None
    /\ initResult = None

\* new() without the call of include().
New_no_include ==
    /\ life = "start"
    /\ life' = "live"
    /\ runner' = RunnerDefault
    /\ has_run' = FALSE
    /\ UNCHANGED << args, trycmd, panicking, mode, triggers, runCalls, calls,
                    runs, handed, report, initResult >>

\* TestCases::new
New ==
    /\ life = "start"
    /\ life' = "live"
    /\ runner' = RunnerInclude(RunnerDefault, parse_include(args))
    /\ has_run' = FALSE
    /\ UNCHANGED << args, trycmd, panicking, mode, triggers, runCalls, calls,
                    runs, handed, report, initResult >>

\* A configuration call is made by the owner's code, which runs while the
\* instance is alive and the thread is not unwinding.
CanCall == life = "live" /\ ~panicking /\ calls < MaxCalls

\* A configuration call that re-arms the trigger of an instance.
Configure_rearm(r) ==
    /\ CanCall
    /\ runner' = r
    /\ calls' = calls + 1
    /\ has_run' = FALSE
    /\ UNCHANGED << args, trycmd, life, panicking, mode, triggers,
                    runCalls, runs, handed, report, initResult >>

Configure(r) ==
    /\ CanCall
    /\ runner' = r
    /\ calls' = calls + 1
    /\ UNCHANGED << args, trycmd, life, has_run, panicking, mode, triggers,
                    runCalls, runs, handed, report, initResult >>

\* One call of each configuration method, with its arguments.
call_case(glob) == Configure(RunnerCase(runner, glob, None))
\* pass() registering the pattern without the expected status.
call_pass_no_status(glob) == Configure(RunnerCase(runner, glob, None))
call_pass(glob) == Configure(RunnerCase(runner, glob, Some("Pass")))
call_fail(glob) == Configure(RunnerCase(runner, glob, Some("Fail")))
call_interrupted(glob) == Configure(RunnerCase(runner, glob, Some("Interrupted")))
call_skip(glob) == Configure(RunnerCase(runner, glob, Some("Skip")))
call_default_bin_path(path) == Configure(RunnerDefaultBin(runner, Some(<< "Path", path >>)))
\* default_bin_name() building a Bin::Path from the name.
call_default_bin_name_as_path(name) ==
    Configure(RunnerDefaultBin(runner, Some(<< "Path", name >>)))
call_default_bin_name(name) == Configure(RunnerDefaultBin(runner, Some(<< "Name", name >>)))
call_timeout(time) == Configure(RunnerTimeout(runner, Some(time)))
\* env() handing its arguments over in the wrong order.
call_env_swapped(key, value) == Configure(RunnerEnv(runner, value, key))
call_env(key, value) == Configure(RunnerEnv(runner, key, value))

case == \E glob \in Globs : call_case(glob)
pass == \E glob \in Globs : call_pass(glob)
fail == \E glob \in Globs : call_fail(glob)
interrupted == \E glob \in Globs : call_interrupted(glob)
skip == \E glob \in Globs : call_skip(glob)
default_bin_path == \E path \in Paths : call_default_bin_path(path)
default_bin_name == \E name \in Names : call_default_bin_name(name)
timeout == \E time \in Durations : call_timeout(time)
env == \E key \in EnvKeys, value \in EnvVals : call_env(key, value)

\* run() clearing the flag once the runner has returned.
run_flag_cleared(fsOk, rep) ==
    LET m == parse_mode(trycmd)
    IN  /\ mode' = Some(m)
        /\ triggers' = triggers + 1
        /\ IF initialize(m, fsOk)
           THEN /\ has_run' = FALSE
                /\ runs' = runs + 1
                /\ handed' = Some([ config |-> RunnerPrepare(runner), mode |-> m,
                                    has_run |-> TRUE ])
                /\ report' = Some(rep)
                /\ initResult' = Some(TRUE)
                /\ UNCHANGED panicking
           ELSE /\ has_run' = TRUE
                /\ initResult' = Some(FALSE)
                /\ panicking' = TRUE
                /\ UNCHANGED << runs, handed, report >>
        /\ UNCHANGED << args, trycmd, runner, calls >>

\* run() marking the flag only when the runner reported success.
run_flag_on_pass(fsOk, rep) ==
    LET m == parse_mode(trycmd)
    IN  /\ mode' = Some(m)
        /\ triggers' = triggers + 1
        /\ IF initialize(m, fsOk)
           THEN /\ has_run' = (has_run \/ rep = "pass")
                /\ runs' = runs + 1
                /\ handed' = Some([ config |-> RunnerPrepare(runner), mode |-> m,
                                    has_run |-> has_run ])
                /\ report' = Some(rep)
                /\ initResult' = Some(TRUE)
                /\ UNCHANGED panicking
           ELSE /\ initResult' = Some(FALSE)
                /\ panicking' = TRUE
                /\ UNCHANGED << has_run, runs, handed, report >>
        /\ UNCHANGED << args, trycmd, runner, calls >>

\* run() dropping the result of mode.initialize() instead of unwrapping it.
run_ignore_init(fsOk, rep) ==
    LET m == parse_mode(trycmd)
    IN  /\ has_run' = TRUE
        /\ mode' = Some(m)
        /\ triggers' = triggers + 1
        /\ initResult' = Some(initialize(m, fsOk))
        /\ runs' = runs + 1
        /\ handed' = Some([ config |-> RunnerPrepare(runner), mode |-> m,
                            has_run |-> TRUE ])
        /\ report' = Some(rep)
        /\ UNCHANGED << args, trycmd, runner, calls, panicking >>

\* run() marking the flag as its last statement.
run_flag_last(fsOk, rep) ==
    LET m == parse_mode(trycmd)
    IN  /\ mode' = Some(m)
        /\ triggers' = triggers + 1
        /\ IF initialize(m, fsOk)
           THEN /\ runs' = runs + 1
                /\ handed' = Some([ config |-> RunnerPrepare(runner), mode |-> m,
                                    has_run |-> has_run ])
                /\ report' = Some(rep)
                /\ initResult' = Some(TRUE)
                /\ has_run' = TRUE
                /\ UNCHANGED panicking
           ELSE /\ initResult' = Some(FALSE)
                /\ panicking' = TRUE
                /\ UNCHANGED << has_run, runs, handed, report >>
        /\ UNCHANGED << args, trycmd, runner, calls >>

\* run() marking the flag after mode.initialize().unwrap() instead of before.
run_flag_after_init(fsOk, rep) ==
    LET m == parse_mode(trycmd)
    IN  /\ mode' = Some(m)
        /\ triggers' = triggers + 1
        /\ IF initialize(m, fsOk)
           THEN /\ has_run' = TRUE
                /\ runs' = runs + 1
                /\ handed' = Some([ config |-> RunnerPrepare(runner), mode |-> m,
                                    has_run |-> TRUE ])
                /\ report' = Some(rep)
                /\ initResult' = Some(TRUE)
                /\ UNCHANGED panicking
           ELSE /\ initResult' = Some(FALSE)
                /\ panicking' = TRUE
                /\ UNCHANGED << has_run, runs, handed, report >>
        /\ UNCHANGED << args, trycmd, runner, calls >>

\* The body of TestCases::run. fsOk: whether the file system lets
\* mode.initialize() succeed; rep: what the runner reports.
run(fsOk, rep) ==
    LET flag == TRUE
        m == parse_mode(trycmd)
    IN  /\ has_run' = flag
        /\ mode' = Some(m)
        /\ triggers' = triggers + 1
        /\ IF initialize(m, fsOk)
           THEN /\ runs' = runs + 1
                /\ handed' = Some([ config |-> RunnerPrepare(runner), mode |-> m,
                                    has_run |-> flag ])
                /\ report' = Some(rep)
                /\ initResult' = Some(TRUE)
                /\ UNCHANGED panicking
           ELSE \* unwrap() panics
                /\ initResult' = Some(FALSE)
                /\ panicking' = TRUE
                /\ UNCHANGED << runs, handed, report >>
        /\ UNCHANGED << args, trycmd, runner, calls >>

\* An explicit call of TestCases::run
Run ==
    \E fsOk \in BOOLEAN, rep \in Reports :
        /\ life = "live"
        /\ ~panicking
        /\ runCalls < MaxRuns
        /\ run(fsOk, rep)
        /\ runCalls' = runCalls + 1
        /\ UNCHANGED life

\* drop that never runs.
Drop_never ==
    /\ life = "live"
    /\ life' = "dropped"
    /\ UNCHANGED << args, trycmd, runner, has_run, panicking, mode, triggers,
                    runCalls, calls, runs, handed, report, initResult >>

\* drop without the test of std::thread::panicking().
Drop_ignore_panicking ==
    \E fsOk \in BOOLEAN, rep \in Reports :
        /\ life = "live"
        /\ life' = "dropped"
        /\ IF ~has_run
           THEN run(fsOk, rep)
           ELSE UNCHANGED << args, trycmd, runner, has_run, panicking, mode,
                             triggers, calls, runs, handed, report, initResult >>
        /\ UNCHANGED runCalls

\* drop without the test of has_run.
Drop_ignore_has_run ==
    \E fsOk \in BOOLEAN, rep \in Reports :
        /\ life = "live"
        /\ life' = "dropped"
        /\ IF ~panicking
           THEN run(fsOk, rep)
           ELSE UNCHANGED << args, trycmd, runner, has_run, panicking, mode,
                             triggers, calls, runs, handed, report, initResult >>
        /\ UNCHANGED runCalls

\* drop executing the runner itself in the default mode, without resolving
\* and preparing the mode as run() does.
Drop_own_run ==
    \E rep \in Reports :
        /\ life = "live"
        /\ life' = "dropped"
        /\ IF ~has_run /\ ~panicking
           THEN /\ has_run' = TRUE
                /\ mode' = Some(ModeFail)
                /\ triggers' = triggers + 1
                /\ runs' = runs + 1
                /\ handed' = Some([ config |-> RunnerPrepare(runner), mode |-> ModeFail,
                                    has_run |-> TRUE ])
                /\ report' = Some(rep)
                /\ initResult' = Some(TRUE)
                /\ UNCHANGED << args, trycmd, runner, panicking, calls >>
           ELSE UNCHANGED << args, trycmd, runner, has_run, panicking, mode,
                             triggers, calls, runs, handed, report, initResult >>
        /\ UNCHANGED runCalls

\* drop calling run() unconditionally.
Drop_always ==
    \E fsOk \in BOOLEAN, rep \in Reports :
        /\ life = "live"
        /\ life' = "dropped"
        /\ run(fsOk, rep)
        /\ UNCHANGED runCalls

\* Drop for TestCases
Drop ==
    \E fsOk \in BOOLEAN, rep \in Reports :
        /\ life = "live"
        /\ life' = "dropped"
        /\ IF ~has_run /\ ~panicking
           THEN run(fsOk, rep)
           ELSE UNCHANGED << args, trycmd, runner, has_run, panicking, mode,
                             triggers, calls, runs, handed, report, initResult >>
        /\ UNCHANGED runCalls

\* An unrelated failure starts unwinding the thread that owns the instance.
Panic ==
    /\ life = "live"
    /\ ~panicking
    /\ panicking' = TRUE
    /\ UNCHANGED << args, trycmd, life, runner, has_run, mode, triggers,
                    runCalls, calls, runs, handed, report, initResult >>

\* The unwinding is caught (catch_unwind) below the owner of the instance,
\* which RefUnwindSafe lets a closure borrow.
CatchUnwind ==
    /\ life = "live"
    /\ panicking
    /\ panicking' = FALSE
    /\ UNCHANGED << args, trycmd, life, runner, has_run, mode, triggers,
                    runCalls, calls, runs, handed, report, initResult >>

Next ==
    \/ New
    \/ case \/ pass \/ fail \/ interrupted \/ skip
    \/ default_bin_path \/ default_bin_name \/ timeout \/ env
    \/ Run
    \/ Drop
    \/ Panic
    \/ CatchUnwind

Init ==
    /\ args \in LifeArgLists
    /\ trycmd \in LifeVars
    /\ Start

Spec == Init /\ [][Next]_vars

\* The parsers over all their inputs: parse_include reads only the
\* arguments and parse_mode only TRYCMD, so each is explored over its whole
\* input set with the other input held at its empty value. The instance is
\* constructed, triggered and dropped without configuration calls.
InitParse ==
    /\ \/ args \in ArgLists /\ trycmd = None
       \/ args = << >> /\ trycmd \in VarPool
    /\ Start

NextParse == New \/ Run \/ Drop

SpecParse == InitParse /\ [][NextParse]_vars

\* ---------------------------------------------------------------- claims
\* A step that drops the instance.
DropStep == life = "live" /\ life' = "dropped"
\* A step in which the body of run() is entered, by run() or by drop.
TriggerStep == triggers' = triggers + 1

\* C1: the runner is executed at most once for one instance, whatever the
\* sequence of configuration calls, run() calls and the drop.
C1_RunnerAtMostOnce == runs <= 1

\* C2 as stated: a drop with no run() before it and no panic in progress
\* executes the runner exactly once, with the configuration accumulated so
\* far.
C2_DropAlwaysRuns ==
    [][ (DropStep /\ runCalls = 0 /\ ~panicking)
        => /\ runs' = 1
           /\ IsSome(handed')
           /\ Unwrap(handed').config = RunnerPrepare(runner) ]_vars

\* C2 as amended: such a drop executes the runner exactly once with the
\* accumulated configuration when mode preparation succeeds; when it fails
\* the drop panics and the runner is not executed.
C2_DropRunsUnlessInitFails ==
    [][ (DropStep /\ runCalls = 0 /\ ~panicking)
        => IF initResult' = Some(FALSE)
           THEN runs' = 0 /\ panicking'
           ELSE /\ runs' = 1
                /\ IsSome(handed')
                /\ Unwrap(handed').config = RunnerPrepare(runner)
                /\ Unwrap(handed').mode = parse_mode(trycmd) ]_vars

\* A drop, with run() never called, executed the runner with a configuration
\* that holds a registered case.
C2_Witness ==
    /\ life = "dropped"
    /\ runCalls = 0
    /\ runs = 1
    /\ IsSome(handed)
    /\ Unwrap(handed).config.cases # << >>

\* C3: a drop while the thread is panicking neither executes the runner nor
\* resolves or initializes the mode, whatever the flag is.
C3_NoRunWhilePanicking ==
    [][ (DropStep /\ panicking)
        => /\ runs' = runs
           /\ triggers' = triggers
           /\ mode' = mode
           /\ initResult' = initResult
           /\ handed' = handed
           /\ has_run' = has_run ]_vars

\* A configured instance on which nothing was ever triggered was dropped
\* during a panic.
C3_Witness ==
    /\ life = "dropped"
    /\ panicking
    /\ ~has_run
    /\ triggers = 0
    /\ mode = None
    /\ calls > 0

\* C4 as stated: after an explicit run() the drop (no panic in progress)
\* executes nothing, and one run() followed by the drop executes the runner
\* exactly once in total.
C4_OneRunThenDropIsOnce ==
    [][ (DropStep /\ runCalls >= 1 /\ ~panicking)
        => /\ runs' = runs
           /\ triggers' = triggers
           /\ (runCalls = 1 => runs' = 1) ]_vars

\* C4 as amended: after an explicit run() the drop executes nothing; one
\* run() followed by the drop executes the runner exactly once in total when
\* that run()'s mode preparation succeeded, and not at all when it failed.
C4_DropAfterRunIsIdle ==
    [][ (DropStep /\ runCalls >= 1 /\ ~panicking)
        => /\ runs' = runs
           /\ triggers' = triggers
           /\ handed' = handed
           /\ (runCalls = 1 => runs' = (IF initResult = Some(TRUE) THEN 1 ELSE 0)) ]_vars

\* One explicit run() executed the runner, and the instance was then dropped
\* with no panic in progress.
C4_Witness ==
    /\ life = "dropped"
    /\ runCalls = 1
    /\ triggers = 1
    /\ runs = 1
    /\ ~panicking

\* C5: the mode a trigger resolves is Overwrite exactly for "overwrite",
\* Dump with the destination "dump" exactly for "dump", and Fail for every
\* other value of TRYCMD, unset included; every trigger resolves a mode.
C5_ParseModeExact ==
    /\ triggers > 0 => IsSome(mode)
    /\ IsSome(mode) =>
         /\ trycmd = Some("overwrite") => Unwrap(mode) = << "Overwrite" >>
         /\ trycmd = Some("dump") => Unwrap(mode) = << "Dump", "dump" >>
         /\ trycmd \notin { Some("overwrite"), Some("dump") } => Unwrap(mode) = << "Fail" >>

\* A value that differs from "overwrite" only in capitalisation was resolved
\* to Fail.
C5_Witness == trycmd = Some("Overwrite") /\ mode = Some(<< "Fail" >>) /\ triggers > 0

\* The members of an optional filter.
Members(o) == IF IsSome(o) THEN { Unwrap(o)[i] : i \in 1..Len(Unwrap(o)) } ELSE { }
\* The argument begins with "trycmd=".
BeginsWithPrefix(a) ==
    Len(a) >= Len(PREFIX) /\ \A i \in 1..Len(PREFIX) : a[i] = PREFIX[i]
\* What follows the first seven bytes of the argument.
Remainder(a) == SubSeq(a, Len(PREFIX) + 1, Len(a))
\* The argument is valid Unicode.
IsUnicode(a) == \A i \in 1..Len(a) : a[i] # InvalidByte
\* The non-empty remainders of the arguments that begin with "trycmd=".
Qualifying(as) ==
    { Remainder(as[i]) :
        i \in { j \in 1..Len(as) : BeginsWithPrefix(as[j]) /\ Remainder(as[j]) # << >> } }
\* The same, among the arguments that are valid Unicode.
QualifyingUnicode(as) ==
    { Remainder(as[i]) :
        i \in { j \in 1..Len(as) : /\ IsUnicode(as[j])
                                   /\ BeginsWithPrefix(as[j])
                                   /\ Remainder(as[j]) # << >> } }
\* The list with the arguments at i and j exchanged.
Swap(as, i, j) ==
    [ k \in 1..Len(as) |-> IF k = i THEN as[j] ELSE IF k = j THEN as[i] ELSE as[k] ]
\* Exchanging two neighbouring arguments leaves the members of the parsed
\* filter as they are in the filter the instance holds. Every permutation is
\* a chain of such exchanges, and every list of the length is explored.
PermutationKeepsMembers ==
    \A i \in 1..(Len(args) - 1) :
        Members(parse_include(Swap(args, i, i + 1))) = Members(runner.include)

\* C6 as stated: the members of a returned filter are exactly the non-empty
\* remainders of the arguments that begin with "trycmd=", and permuting the
\* arguments does not change the members.
C6_FilterMembers ==
    life # "start" =>
        /\ IsSome(runner.include) => Members(runner.include) = Qualifying(args)
        /\ PermutationKeepsMembers

\* C6 as amended: the members are exactly the non-empty remainders of the
\* arguments that are valid Unicode and begin with "trycmd="; permuting the
\* arguments does not change the members.
C6_FilterMembersUnicode ==
    life # "start" =>
        /\ IsSome(runner.include) => Members(runner.include) = QualifyingUnicode(args)
        /\ PermutationKeepsMembers

\* The arguments ["x", "trycmd=foo", "trycmd=", "trycmd=bar"] gave the filter
\* {"foo", "bar"}.
C6_Witness ==
    /\ life = "live"
    /\ args = << ArgX, ArgFoo, ArgBare, ArgBar >>
    /\ IsSome(runner.include)
    /\ Members(runner.include) = { << "f", "o", "o" >>, << "b", "a", "r" >> }

\* C7 as stated: the result is "no filter" exactly when no argument begins
\* with "trycmd=" followed by a non-empty remainder, and a filter that is
\* present is never empty.
C7_NoFilterIff ==
    life # "start" =>
        /\ runner.include = None <=> Qualifying(args) = { }
        /\ runner.include # Some(<< >>)

\* C7 as amended: the result is "no filter" exactly when no argument that is
\* valid Unicode begins with "trycmd=" followed by a non-empty remainder, and a
\* filter that is present is never empty.
C7_NoFilterIffUnicode ==
    life # "start" =>
        /\ runner.include = None <=> QualifyingUnicode(args) = { }
        /\ runner.include # Some(<< >>)

\* Arguments whose only prefixed entry is the bare "trycmd=" gave no filter.
C7_Witness ==
    /\ life = "live"
    /\ args = << ArgX, ArgBare >>
    /\ runner.include = None

\* C8: the flag is false at construction, never returns from true to false,
\* and changes only in a step that enters the body of run().
C8_FlagOneWay ==
    [][ /\ (life = "start" /\ life' = "live") => ~has_run'
        /\ has_run => has_run'
        /\ has_run' # has_run => TriggerStep ]_vars

\* The flag is still true after a second trigger and later configuration.
C8_Witness == life = "live" /\ has_run /\ triggers = 2 /\ calls > 0

\* C9: a trigger whose mode preparation succeeds leaves the flag true
\* whatever the runner reports, and a reported failure starts no panic.
C9_ExecutedWhateverReported ==
    [][ (TriggerStep /\ initResult' = Some(TRUE))
        => /\ has_run'
           /\ IsSome(report')
           /\ panicking' = panicking ]_vars

\* A run in which the runner reported failure left the flag true and the
\* thread not panicking.
C9_Witness ==
    /\ life = "live"
    /\ report = Some("fail")
    /\ has_run
    /\ ~panicking
    /\ initResult = Some(TRUE)

\* C10: a trigger whose mode preparation fails does not invoke the runner,
\* and the runner is invoked only by a trigger whose preparation succeeded.
C10_NoRunnerAfterInitFailure ==
    [][ /\ (TriggerStep /\ initResult' = Some(FALSE))
           => runs' = runs /\ handed' = handed /\ report' = report
        /\ (runs' # runs \/ handed' # handed \/ report' # report)
           => TriggerStep /\ initResult' = Some(TRUE) ]_vars

\* A trigger in dump mode failed to prepare the destination and the runner
\* was never invoked.
C10_Witness ==
    /\ initResult = Some(FALSE)
    /\ mode = Some(<< "Dump", "dump" >>)
    /\ runs = 0
    /\ handed = None
    /\ panicking

\* A configuration call is made in this step.
CallStep == calls' = calls + 1
\* A trigger in this step reached the runner.
HandOffStep == TriggerStep /\ initResult' = Some(TRUE)
\* The positions of the entries for a key in a default environment.
EntriesFor(e, k) == { i \in 1..Len(e) : e[i].key = k }
\* The values a default environment holds for a key.
ValuesFor(e, k) == { e[i].value : i \in EntriesFor(e, k) }

CasesFor(cs, glob) == { i \in 1..Len(cs) : cs[i].glob = glob }

\* C12: pass(pattern) on a pattern that is already registered, by case()
\* or otherwise, leaves the finalized configuration with a single entry for
\* the pattern, expected to Pass; and a trigger hands the runner the
\* finalized entries, one per registered pattern.
C12_PassOverridesCase ==
    [][ /\ \A glob \in Globs :
             (call_pass(glob) /\ CasesFor(runner.cases, glob) # { }) =>
                LET final == RunnerPrepare(runner').cases
                IN  /\ Cardinality(CasesFor(final, glob)) = 1
                    /\ \A j \in CasesFor(final, glob) : final[j].expected = Some("Pass")
                    /\ Len(final) = Len(RunnerPrepare(runner).cases)
        /\ HandOffStep =>
             LET given == Unwrap(handed').config.cases
             IN  /\ given = RunnerPrepare(runner).cases
                 /\ \A glob \in Globs :
                      Cardinality(CasesFor(given, glob))
                        = (IF CasesFor(runner.cases, glob) = { } THEN 0 ELSE 1) ]_vars

\* case("a.toml") then pass("a.toml"): the runner was given one entry for
\* "a.toml", expected to Pass.
C12_Witness ==
    /\ runner.cases = << [ glob |-> "a.toml", expected |-> None ],
                         [ glob |-> "a.toml", expected |-> Some("Pass") ] >>
    /\ IsSome(handed)
    /\ Unwrap(handed).config.cases = << [ glob |-> "a.toml", expected |-> Some("Pass") ] >>

\* C13: after default_bin_path(p) the default executable is ByPath(p) and
\* after default_bin_name(n) it is ByName(n), whatever it was before; no other
\* configuration call changes it; and a trigger hands the runner the default
\* executable as it stands, that of the most recent of the two calls.
C13_DefaultBinLastWins ==
    [][ /\ \A path \in Paths :
             call_default_bin_path(path) => runner'.default_bin = Some(<< "Path", path >>)
        /\ \A name \in Names :
             call_default_bin_name(name) => runner'.default_bin = Some(<< "Name", name >>)
        /\ (CallStep /\ ~(\E path \in Paths : call_default_bin_path(path))
                     /\ ~(\E name \in Names : call_default_bin_name(name)))
             => runner'.default_bin = runner.default_bin
        /\ HandOffStep => Unwrap(handed').config.default_bin = runner.default_bin ]_vars

\* The runner was given the executable set by default_bin_path, and a later
\* default_bin_name left the name alone in the slot.
C13_Witness ==
    /\ IsSome(handed)
    /\ Unwrap(handed).config.default_bin = Some(<< "Path", "target/app" >>)
    /\ runner.default_bin = Some(<< "Name", "app" >>)
    /\ calls = 2

\* C14 as stated: the flag is marked only after the hand-off to the runner:
\* the runner is invoked while the flag still has the value it had before the
\* trigger, and a trigger that fails in mode preparation leaves the flag as it
\* was.
C14_FlagMarkedLast ==
    [][ TriggerStep =>
          IF initResult' = Some(TRUE)
          THEN has_run' /\ Unwrap(handed').has_run = has_run
          ELSE has_run' = has_run ]_vars

\* C14 as amended: a trigger marks the flag first, then resolves the mode
\* from TRYCMD, prepares that mode, and only after a successful preparation
\* hands the finalized configuration and that mode to the runner: the flag is
\* already true at the hand-off, and it is true as well when the preparation
\* fails and nothing is handed over.
C14_FlagMarkedFirst ==
    [][ TriggerStep =>
          /\ has_run'
          /\ mode' = Some(parse_mode(trycmd))
          /\ IsSome(initResult')
          /\ IF initResult' = Some(TRUE)
             THEN /\ runs' = runs + 1
                  /\ handed' = Some([ config |-> RunnerPrepare(runner),
                                      mode |-> parse_mode(trycmd),
                                      has_run |-> TRUE ])
             ELSE /\ runs' = runs
                  /\ handed' = handed ]_vars

\* The first trigger of an instance handed a configuration with a case to
\* the runner, and the flag was already true at the hand-off.
C14_Witness ==
    /\ triggers = 1
    /\ has_run
    /\ IsSome(handed)
    /\ Unwrap(handed).has_run
    /\ Unwrap(handed).config.cases # << >>

\* C15: a drop that fires the trigger makes the transition an explicit
\* run() makes from the same configuration and the same TRYCMD: every step of
\* such a drop is a step of the body of run() (the same mode resolved, the
\* same preparation, the same configuration and mode handed over, the same
\* flag, counters and panic), and wherever the drop can fire it can produce
\* every outcome the body of run() has.
C15_DropRunsLikeRun ==
    /\ [][ (DropStep /\ TriggerStep) => \E fsOk \in BOOLEAN, rep \in Reports : run(fsOk, rep) ]_vars
    /\ [] ( (life = "live" /\ ~has_run /\ ~panicking) =>
              \A fsOk \in BOOLEAN, rep \in Reports :
                  /\ ENABLED (Drop /\ run(fsOk, rep))
                  /\ runCalls < MaxRuns => ENABLED (Run /\ run(fsOk, rep)) )

\* A drop fired the trigger in dump mode and handed a configured suite to the
\* runner.
C15_Witness ==
    /\ life = "dropped"
    /\ runCalls = 0
    /\ triggers = 1
    /\ IsSome(handed)
    /\ Unwrap(handed).mode = << "Dump", "dump" >>
    /\ Unwrap(handed).config.cases # << >>

\* C16: from construction on, whatever is called afterwards, the inclusion
\* filter of the instance is parse_include of the process arguments, and so
\* is the filter in every configuration handed to the runner.
C16_FilterFixedAtConstruction ==
    /\ life = "start" => runner.include = None
    /\ life # "start" => runner.include = parse_include(args)
    /\ IsSome(handed) => Unwrap(handed).config.include = parse_include(args)

\* After two configuration calls, a run and the drop, the runner had been
\* given the filter {"foo"} parsed from ["x", "trycmd=foo"].
C16_Witness ==
    /\ life = "dropped"
    /\ calls = 2
    /\ args = << ArgX, ArgFoo >>
    /\ IsSome(handed)
    /\ Unwrap(handed).config.include = Some(<< << "f", "o", "o" >> >>)

\* C17: a configuration call, before or after a trigger, leaves the flag,
\* the resolved mode and everything the runner was given or reported as they
\* were, and changes no field of the configuration but its own: the case
\* list for case, pass, fail, interrupted and skip, the default executable for
\* default_bin_path and default_bin_name, the default timeout for timeout, the
\* default environment for env.
C17_ConfigCallsFrame ==
    [][ /\ CallStep =>
             /\ has_run' = has_run
             /\ mode' = mode
             /\ initResult' = initResult
             /\ triggers' = triggers
             /\ runCalls' = runCalls
             /\ runs' = runs
             /\ handed' = handed
             /\ report' = report
             /\ panicking' = panicking
             /\ life' = life
             /\ runner'.include = runner.include
        /\ \A glob \in Globs :
             (\/ call_case(glob) \/ call_pass(glob) \/ call_fail(glob)
              \/ call_interrupted(glob) \/ call_skip(glob))
             => runner' = [ runner EXCEPT !.cases = runner'.cases ]
        /\ \A path \in Paths :
             call_default_bin_path(path)
             => runner' = [ runner EXCEPT !.default_bin = runner'.default_bin ]
        /\ \A name \in Names :
             call_default_bin_name(name)
             => runner' = [ runner EXCEPT !.default_bin = runner'.default_bin ]
        /\ \A time \in Durations :
             call_timeout(time) => runner' = [ runner EXCEPT !.timeout = runner'.timeout ]
        /\ \A key \in EnvKeys, value \in EnvVals :
             call_env(key, value) => runner' = [ runner EXCEPT !.env = runner'.env ] ]_vars

\* One configuration call was made before the only run and one after it:
\* the flag is true, and the runner was invoked once, with the earlier
\* configuration.
C17_Witness ==
    /\ life = "live"
    /\ has_run
    /\ calls = 2
    /\ runs = 1
    /\ IsSome(handed)
    /\ Unwrap(handed).config.cases # << >>
    /\ Unwrap(handed).config.timeout = None
    /\ runner.timeout # None

\* C18: an explicit run() whose mode preparation fails leaves the flag
\* true, the thread panicking and the runner not invoked; the drop of an
\* instance whose last run() failed so executes nothing, whether the panic was
\* caught or not; and when that run() was the only one, the runner was never
\* invoked for the instance.
C18_FailedRunStillMarks ==
    [][ /\ (TriggerStep /\ ~DropStep /\ initResult' = Some(FALSE))
             => has_run' /\ panicking' /\ runs' = runs
        /\ (DropStep /\ runCalls >= 1 /\ initResult = Some(FALSE))
             => /\ triggers' = triggers
                /\ runs' = runs
                /\ handed' = handed
                /\ (runCalls = 1 => runs' = 0 /\ handed' = None) ]_vars

\* The only run() of a configured instance failed in mode preparation, the
\* panic was caught, and the instance was dropped with no panic in progress:
\* the runner was never invoked.
C18_Witness ==
    /\ life = "dropped"
    /\ ~panicking
    /\ runCalls = 1
    /\ triggers = 1
    /\ initResult = Some(FALSE)
    /\ has_run
    /\ runs = 0
    /\ handed = None
    /\ runner.cases # << >>

\* C19: an instance that has been triggered still takes configuration
\* calls; the drop of such an instance hands nothing to the runner, so what
\* was registered after the last trigger is discarded; after the first
\* trigger only an explicit run() hands anything to the runner, and it hands
\* over the configuration as it then stands, later registrations included.
C19_LateCasesNeedExplicitRun ==
    /\ [] ( (life = "live" /\ has_run /\ ~panicking /\ calls < MaxCalls) =>
              \A glob \in Globs : ENABLED call_case(glob) )
    /\ [][ /\ (DropStep /\ has_run)
                => triggers' = triggers /\ runs' = runs /\ handed' = handed
           /\ (has_run /\ (handed' # handed \/ runs' # runs))
                => /\ runCalls' = runCalls + 1
                   /\ ~DropStep
                   /\ Unwrap(handed').config = RunnerPrepare(runner) ]_vars

\* A case registered after the only run() was not in what the runner was
\* given, and the instance has been dropped with no panic in progress.
C19_Witness ==
    /\ life = "dropped"
    /\ ~panicking
    /\ runCalls = 1
    /\ runs = 1
    /\ IsSome(handed)
    /\ \E i \in 1..Len(runner.cases) :
          CasesFor(Unwrap(handed).config.cases, runner.cases[i].glob) = { }

====
